---- MODULE Spec2Model ----
(***************************************************************************)
(* State-machine model of the marker / marker-drag / object-overlay layers *)
(* of the Leaflet fork: L.Marker (src/layer/marker/Marker.js),             *)
(* L.Handler.MarkerDrag (unnamed/part_000) and L.ObjectOverlay             *)
(* (src/layer/ObjectOverlay.js).  The collaborators that are not part of   *)
(* the sources at hand (L.Handler, L.Draggable, L.Layer/L.Map mounting,    *)
(* the coordinate transform, L.Icon, L.DomUtil) follow the specification   *)
(* document.                                                               *)
(*                                                                         *)
(* Every JavaScript method is an operator from a "world" record (the       *)
(* marker object, the DOM, the view, the event log) to the world after the *)
(* call, so that nested calls compose as in the code.  An action applies   *)
(* one public operation or one input event to the current world.           *)
(***************************************************************************)
EXTENDS Integers, Sequences, FiniteSets, TLC

VARIABLES
    layer,      \* which layer the application constructed: "marker" | "overlay"
    view,       \* the map's view context: [zoom, origin]
    animTarget, \* zoom level an animated zoom is heading to, or NoZoom
    marker,     \* the L.Marker object (fields and options, incl. .dragging)
    dom,        \* the DOM elements owned by the marker
    popupOpen,  \* whether the marker's popup is open
    gestureLog, \* names of the events the drag controller fired for the
                \* gesture in progress, or for the one the last step ended
    overlay,    \* the L.ObjectOverlay object and its element
    exceeded,   \* history: the pointer displacement of the most recent
                \* gesture on the present drag controller exceeded the
                \* drag tolerance
    everMounted \* history: the overlay has been added to the map

vars == <<layer, view, animTarget, marker, dom, popupOpen, gestureLog, overlay,
          exceeded, everMounted>>

----------------------------------------------------------------------------
(* Bounds of the model *)

MaxCoord == 1   \* geographic coordinates are 0..MaxCoord in each axis
MaxElems == 4   \* DOM element identities available to the marker
MaxMoves == 2   \* pointer-move events per gesture
MaxDisp  == 1   \* pointer displacement per axis, in pixels

----------------------------------------------------------------------------
(* Values *)

NoEl    == 0
ElemIds == 1..MaxElems
NoZoom  == -1
Zooms   == {0, 1}

Pt(x, y)  == [x |-> x, y |-> y]
LL(a, b)  == [lat |-> a, lng |-> b]
NoLL      == LL(-1, -1)
LatLngs   == {LL(a, b) : a \in 0..MaxCoord, b \in 0..MaxCoord}
\* the view context at a zoom level: the map's pixel origin moves with the zoom
ViewAt(z) == [zoom |-> z, origin |-> z]
Views     == {ViewAt(z) : z \in Zooms}

Abs(n) == IF n < 0 THEN -n ELSE n
Min2(a, b) == IF a < b THEN a ELSE b
Max2(a, b) == IF a < b THEN b ELSE a

\* Math.round of n/2: halves round towards +infinity
RoundHalf(n) == (n + 1) \div 2

----------------------------------------------------------------------------
(* Coordinate Transform Provider *)

\* world pixel of one coordinate at a zoom level: coordinate * 2^zoom / 2,
\* rounded to a whole pixel
Project(c, zoom) == IF zoom = 0 THEN RoundHalf(c) ELSE c
Unproject(p, zoom) == IF zoom = 0 THEN 2 * p ELSE p

\* map.latLngToLayerPoint(latlng): screen y grows towards the south
latLngToLayerPoint(ll, v) ==
    Pt(Project(ll.lng, v.zoom) - v.origin,
       Project(MaxCoord - ll.lat, v.zoom) - v.origin)

\* map.layerPointToLatLng(point)
layerPointToLatLng(p, v) ==
    LL(MaxCoord - Unproject(p.y + v.origin, v.zoom),
       Unproject(p.x + v.origin, v.zoom))

\* map._latLngToNewLayerPoint(latlng, zoom, center): the layer point the
\* coordinate will have once the view has reached the new zoom
latLngToNewLayerPoint(ll, zoom, v) ==
    latLngToLayerPoint(ll, ViewAt(zoom))

----------------------------------------------------------------------------
(* Icon definitions (L.Icon / L.DivIcon) *)

IconDefault == [tag |-> "img", shadow |-> TRUE]
IconDiv     == [tag |-> "div", shadow |-> FALSE]
IconDefs    == {IconDefault, IconDiv}

----------------------------------------------------------------------------
(* DOM *)

\* a new element; appends and detaches count how often it was put into and
\* taken out of a pane
NewElement == [tag |-> "none", pos |-> Pt(0, 0), z |-> 0, opacity |-> 100,
               cls |-> {}, pane |-> "none", target |-> FALSE,
               appends |-> 0, detaches |-> 0]

\* L.Draggable before construction
NoDraggable == [exists |-> FALSE, el |-> NoEl, enabled |-> FALSE,
                moved |-> FALSE, moving |-> FALSE, subs |-> {},
                startPos |-> Pt(0, 0)]

\* marker.dragging before _initInteraction has run
NoHandler == [exists |-> FALSE, enabled |-> FALSE, draggable |-> NoDraggable]

\* element identities the marker still refers to or that are in a pane
UsedIn(m, d) ==
    ({m.icon, m.shadow, m.dragging.draggable.el} \ {NoEl})
      \cup {e \in ElemIds : d[e].pane # "none"}
Used(W) == UsedIn(W.m, W.dom)

\* an exception leaves the operation: the world keeps what was done so far,
\* and nothing that would have followed is done
Throw(W) == [W EXCEPT !.threw = TRUE]

\* the world Y that a statement makes of X, unless an exception is under way
Set(X, Y) == IF X.threw THEN X ELSE Y

\* a DOM call on element el (null raises a TypeError)
OnEl(X, el, Y) == IF X.threw THEN X ELSE IF el = NoEl THEN Throw(X) ELSE Y

\* document.createElement: an element identity that is in use neither now
\* nor at the start of the operation; the element is the call's result
Fresh(W) == CHOOSE e \in ElemIds \ (Used(W) \cup W.pre) :
                \A f \in ElemIds \ (Used(W) \cup W.pre) : e <= f

CreateElement(W, el, tag) ==
    [W EXCEPT !.dom[el] = [NewElement EXCEPT !.tag = tag], !.ret = el]

\* L.DomUtil.setPosition / getPosition
SetPosition(W, el, p) == OnEl(W, el, [W EXCEPT !.dom[el].pos = p])
GetPosition(W, el) == W.dom[el].pos

\* L.DomUtil.addClass / removeClass
AddClass(W, el, c) == OnEl(W, el, [W EXCEPT !.dom[el].cls = @ \cup {c}])
RemoveClass(W, el, c) == OnEl(W, el, [W EXCEPT !.dom[el].cls = @ \ {c}])

\* L.DomUtil.setOpacity
SetElOpacity(W, el, o) == OnEl(W, el, [W EXCEPT !.dom[el].opacity = o])

\* pane.appendChild(el)
AppendChild(W, paneName, el) ==
    OnEl(W, el, [W EXCEPT !.dom[el].pane = paneName, !.dom[el].appends = @ + 1])

\* L.DomUtil.remove(el)
DomRemove(W, el) ==
    OnEl(W, el,
         [W EXCEPT !.dom[el].pane = "none",
                   !.dom[el].detaches = IF W.dom[el].pane # "none" THEN @ + 1 ELSE @])

----------------------------------------------------------------------------
(* Events fired on the marker: the payload, and what a listener finds when *)
(* it is called (the marker's stored position, whether the popup is open,  *)
(* where the icon is)                                                      *)

Ev(name, ll, old, W) ==
    [name |-> name, latlng |-> ll, oldLatLng |-> old,
     at |-> W.m.latlng, popup |-> W.popup,
     iconAt |-> IF W.m.icon # NoEl THEN <<W.dom[W.m.icon].pos>> ELSE <<>>]

\* marker.fire(name, payload) from the public API
Fire(W, e) == Set(W, [W EXCEPT !.fired = Append(@, e)])

\* marker.fire(name, payload) from the drag controller
FireDrag(W, e) ==
    Set(W, [W EXCEPT !.fired = Append(@, e), !.glog = Append(@, e.name)])

----------------------------------------------------------------------------
(* L.Marker: positioning *)

\* Marker._updateZIndex(offset)
_updateZIndex(W, offset) ==
    OnEl(W, W.m.icon, [W EXCEPT !.dom[W.m.icon].z = W.m.zIndex + offset])

\* Marker._resetZIndex()
_resetZIndex(W) == _updateZIndex(W, 0)

\* Marker options.riseOffset
RiseOffset == 250

\* _bringToFront with a seeded fault: the rise goes into the base z-index
_bringToFront_persist(W) ==
    _updateZIndex([W EXCEPT !.m.zIndex = @ + RiseOffset], 0)

\* Marker._bringToFront()
_bringToFront(W) == _updateZIndex(W, RiseOffset)

\* _setPos with a seeded fault: the base z-index is added to, not replaced
_setPos_accumulate(W, pos) ==
    LET MoveShadow(X) ==
            IF X.m.shadow # NoEl THEN SetPosition(X, X.m.shadow, pos) ELSE X
        SetBase(X) ==
            Set(X, [X EXCEPT !.m.zIndex = @ + pos.y + X.m.options.zIndexOffset])
    IN  _resetZIndex(SetBase(MoveShadow(SetPosition(W, W.m.icon, pos))))

\* Marker._setPos(pos)
_setPos(W, pos) ==
    LET MoveShadow(X) ==
            IF X.m.shadow # NoEl THEN SetPosition(X, X.m.shadow, pos) ELSE X
        SetBase(X) ==
            Set(X, [X EXCEPT !.m.zIndex = pos.y + X.m.options.zIndexOffset])
    IN  _resetZIndex(SetBase(MoveShadow(SetPosition(W, W.m.icon, pos))))

\* update with a seeded fault: the icon is left where it is
update_skip(W) == W

\* Marker.update()
update(W) ==
    IF W.m.icon # NoEl
    THEN _setPos(W, latLngToLayerPoint(W.m.latlng, W.view))
    ELSE W

\* Marker._animateZoom(opt)
_animateZoom(W, zoom) ==
    _setPos(W, latLngToNewLayerPoint(W.m.latlng, zoom, W.view))

\* Marker._updateOpacity()
_updateOpacity(W) ==
    LET FadeShadow(X) ==
            IF X.m.shadow # NoEl
            THEN SetElOpacity(X, X.m.shadow, X.m.options.opacity)
            ELSE X
    IN  FadeShadow(SetElOpacity(W, W.m.icon, W.m.options.opacity))

\* Layer.closePopup()
closePopup(W) == Set(W, [W EXCEPT !.popup = FALSE])

----------------------------------------------------------------------------
(* L.Handler.MarkerDrag: the handlers of the gesture engine's events *)

\* MarkerDrag._onDragStart(); the log of the gesture starts here
_onDragStart(W) ==
    LET Begin(X) == Set(X, [X EXCEPT !.glog = <<>>])
        MoveStart(X) == FireDrag(X, Ev("movestart", NoLL, NoLL, X))
        DragStart(X) == FireDrag(X, Ev("dragstart", NoLL, NoLL, X))
    IN  DragStart(MoveStart(Begin(closePopup(W))))

\* _onDrag with a seeded fault: drag is fired before move
_onDrag_dragFirst(W) ==
    LET iconPos == GetPosition(W, W.m.icon)
        latlng  == layerPointToLatLng(iconPos, W.view)
        MoveShadow(X) ==
            IF X.m.shadow # NoEl THEN SetPosition(X, X.m.shadow, iconPos) ELSE X
        Store(X) == Set(X, [X EXCEPT !.m.latlng = latlng])
        Move(X) == FireDrag(X, Ev("move", latlng, NoLL, X))
        Drag(X) == FireDrag(X, Ev("drag", latlng, NoLL, X))
    IN  IF W.threw THEN W
        ELSE IF W.m.icon = NoEl THEN Throw(W)
        ELSE Move(Drag(Store(MoveShadow(W))))

\* _onDrag with a seeded fault: the new position goes into the payload only
_onDrag_noStore(W) ==
    LET iconPos == GetPosition(W, W.m.icon)
        latlng  == layerPointToLatLng(iconPos, W.view)
        MoveShadow(X) ==
            IF X.m.shadow # NoEl THEN SetPosition(X, X.m.shadow, iconPos) ELSE X
        Move(X) == FireDrag(X, Ev("move", latlng, NoLL, X))
        Drag(X) == FireDrag(X, Ev("drag", latlng, NoLL, X))
    IN  IF W.threw THEN W
        ELSE IF W.m.icon = NoEl THEN Throw(W)
        ELSE Drag(Move(MoveShadow(W)))

\* _onDrag with a seeded fault: the shadow is left behind
_onDrag_noShadow(W) ==
    LET iconPos == GetPosition(W, W.m.icon)
        latlng  == layerPointToLatLng(iconPos, W.view)
        Store(X) == Set(X, [X EXCEPT !.m.latlng = latlng])
        Move(X) == FireDrag(X, Ev("move", latlng, NoLL, X))
        Drag(X) == FireDrag(X, Ev("drag", latlng, NoLL, X))
    IN  IF W.threw THEN W
        ELSE IF W.m.icon = NoEl THEN Throw(W)
        ELSE Drag(Move(Store(W)))

\* MarkerDrag._onDrag(e)
_onDrag(W) ==
    LET iconPos == GetPosition(W, W.m.icon)
        latlng  == layerPointToLatLng(iconPos, W.view)
        MoveShadow(X) ==
            IF X.m.shadow # NoEl THEN SetPosition(X, X.m.shadow, iconPos) ELSE X
        Store(X) == Set(X, [X EXCEPT !.m.latlng = latlng])
        Move(X) == FireDrag(X, Ev("move", latlng, NoLL, X))
        Drag(X) == FireDrag(X, Ev("drag", latlng, NoLL, X))
    IN  IF W.threw THEN W
        ELSE IF W.m.icon = NoEl THEN Throw(W)
        ELSE Drag(Move(Store(MoveShadow(W))))

\* MarkerDrag._onDragEnd(e)
_onDragEnd(W) ==
    LET MoveEnd(X) == FireDrag(X, Ev("moveend", NoLL, NoLL, X))
        DragEnd(X) == FireDrag(X, Ev("dragend", NoLL, NoLL, X))
    IN  DragEnd(MoveEnd(W))

----------------------------------------------------------------------------
(* L.Draggable: the gesture engine *)

DragTolerance == 1
Handlers == {"dragstart", "drag", "dragend"}

\* Draggable.fire(type): calls the subscribed handler of the drag controller
DraggableFire(W, type) ==
    IF W.threw \/ type \notin W.m.dragging.draggable.subs THEN W
    ELSE IF type = "dragstart" THEN _onDragStart(W)
    ELSE IF type = "drag" THEN _onDrag(W)
    ELSE _onDragEnd(W)

\* new L.Draggable(icon, icon, true)
NewDraggable(el) == [NoDraggable EXCEPT !.exists = TRUE, !.el = el]

\* Draggable.on({dragstart, drag, dragend}, controller)
DraggableOn(W) == Set(W, [W EXCEPT !.m.dragging.draggable.subs = Handlers])

\* Draggable.off({dragstart, drag, dragend}, controller)
DraggableOff(W) == Set(W, [W EXCEPT !.m.dragging.draggable.subs = {}])

\* Draggable.enable(): listens for pointer-down on its element
DraggableEnable(W) ==
    IF W.threw \/ W.m.dragging.draggable.enabled THEN W
    ELSE OnEl(W, W.m.dragging.draggable.el,
              [W EXCEPT !.m.dragging.draggable.enabled = TRUE])

\* the gesture is over: the engine forgets where it started
GestureOver(W) ==
    [W EXCEPT !.m.dragging.draggable.moving = FALSE,
              !.m.dragging.draggable.startPos = Pt(0, 0)]

\* Draggable.disable(): a gesture in progress is ended with a terminal
\* dragend before the engine stops listening
DraggableDisable(W) ==
    LET Finish(X) ==
            IF X.m.dragging.draggable.moving
            THEN DraggableFire(GestureOver(X), "dragend")
            ELSE X
        Stop(X) == Set(X, [X EXCEPT !.m.dragging.draggable.enabled = FALSE])
    IN  IF W.threw \/ ~W.m.dragging.draggable.enabled THEN W
        ELSE Stop(Finish(W))

\* Draggable._onDown: pointer-down on the bound element begins a gesture
DraggableOnDown(W) ==
    DraggableFire(
        [W EXCEPT !.m.dragging.draggable.moving = TRUE,
                  !.m.dragging.draggable.moved = FALSE,
                  !.m.dragging.draggable.startPos =
                      GetPosition(W, W.m.dragging.draggable.el)],
        "dragstart")

\* Draggable._onMove: the element follows the pointer; offset is the pointer
\* position minus the pointer position at pointer-down
DraggableOnMove(W, offset) ==
    LET Follow(X) ==
            SetPosition(X, X.m.dragging.draggable.el,
                        Pt(X.m.dragging.draggable.startPos.x + offset.x,
                           X.m.dragging.draggable.startPos.y + offset.y))
        Mark(X) ==
            Set(X, [X EXCEPT !.m.dragging.draggable.moved =
                       @ \/ (Abs(offset.x) + Abs(offset.y) > DragTolerance)])
    IN  DraggableFire(Mark(Follow(W)), "drag")

\* Draggable._onUp: pointer-up ends the gesture
DraggableOnUp(W) == DraggableFire(GestureOver(W), "dragend")

----------------------------------------------------------------------------
(* L.Handler.MarkerDrag: hooks, and L.Handler enable/disable *)

\* MarkerDrag.addHooks()
addHooks(W) ==
    LET Construct(X) ==
            IF ~X.m.dragging.draggable.exists
            THEN [X EXCEPT !.m.dragging.draggable = NewDraggable(X.m.icon)]
            ELSE X
    IN  IF W.threw THEN W
        ELSE AddClass(DraggableEnable(DraggableOn(Construct(W))),
                      W.m.icon, "leaflet-marker-draggable")

\* removeHooks with a seeded fault: the engine is unsubscribed but left enabled
removeHooks_keepEngine(W) ==
    LET Unmark(X) ==
            IF X.m.icon # NoEl
            THEN RemoveClass(X, X.m.icon, "leaflet-marker-draggable")
            ELSE X
    IN  IF W.threw THEN W
        ELSE IF ~W.m.dragging.draggable.exists THEN Throw(W)
        ELSE Unmark(DraggableOff(W))

\* MarkerDrag.removeHooks()
removeHooks(W) ==
    LET Unmark(X) ==
            IF X.m.icon # NoEl
            THEN RemoveClass(X, X.m.icon, "leaflet-marker-draggable")
            ELSE X
    IN  IF W.threw THEN W
        ELSE IF ~W.m.dragging.draggable.exists THEN Throw(W)
        ELSE Unmark(DraggableDisable(DraggableOff(W)))

\* moved with a seeded fault: tells whether the engine exists
moved_engine(m) == m.dragging.draggable.exists

\* MarkerDrag.moved()
moved(m) == m.dragging.draggable.exists /\ m.dragging.draggable.moved

\* Handler.enabled()
enabled(m) == m.dragging.enabled

\* Handler.enable()
enable(W) ==
    IF W.threw \/ W.m.dragging.enabled THEN W
    ELSE addHooks([W EXCEPT !.m.dragging.enabled = TRUE])

\* Handler.disable()
disable(W) ==
    IF W.threw \/ ~W.m.dragging.enabled THEN W
    ELSE removeHooks([W EXCEPT !.m.dragging.enabled = FALSE])

----------------------------------------------------------------------------
(* L.Marker: icon lifecycle *)

\* Layer.addInteractiveTarget / removeInteractiveTarget
addInteractiveTarget(W, el) == OnEl(W, el, [W EXCEPT !.dom[el].target = TRUE])
removeInteractiveTarget(W, el) == OnEl(W, el, [W EXCEPT !.dom[el].target = FALSE])

\* _initInteraction with a seeded fault: the new controller is armed from
\* the draggable option, whatever the state of the previous one
_initInteraction_fromOption(W) ==
    LET Mark(X) == addInteractiveTarget(
                       AddClass(X, X.m.icon, "leaflet-interactive"), X.m.icon)
        Retire(X) == IF X.m.dragging.exists THEN disable(X) ELSE X
        Create(X) == Set(X, [X EXCEPT !.m.dragging =
                                          [NoHandler EXCEPT !.exists = TRUE]])
        Arm(X) == IF X.m.options.draggable THEN enable(X) ELSE X
    IN  IF W.threw \/ ~W.m.options.interactive THEN W
        ELSE Arm(Create(Retire(Mark(W))))

\* Marker._initInteraction()
_initInteraction(W) ==
    LET draggable == IF W.m.dragging.exists
                     THEN enabled(W.m)
                     ELSE W.m.options.draggable
        Mark(X) == addInteractiveTarget(
                       AddClass(X, X.m.icon, "leaflet-interactive"), X.m.icon)
        Retire(X) == IF X.m.dragging.exists THEN disable(X) ELSE X
        Create(X) == Set(X, [X EXCEPT !.m.dragging =
                                          [NoHandler EXCEPT !.exists = TRUE]])
        Arm(X) == IF draggable THEN enable(X) ELSE X
    IN  IF W.threw \/ ~W.m.options.interactive THEN W
        ELSE Arm(Create(Retire(Mark(W))))

\* _removeIcon with a seeded fault: the reference to the icon is kept
_removeIcon_keep(W) ==
    LET Unhover(X) ==
            IF X.m.options.riseOnHover THEN [X EXCEPT !.m.hover = FALSE] ELSE X
    IN  IF W.threw THEN W
        ELSE removeInteractiveTarget(DomRemove(Unhover(W), W.m.icon), W.m.icon)

\* Marker._removeIcon()
_removeIcon(W) ==
    LET Unhover(X) ==
            IF X.m.options.riseOnHover THEN [X EXCEPT !.m.hover = FALSE] ELSE X
        Forget(X) == Set(X, [X EXCEPT !.m.icon = NoEl])
    IN  IF W.threw THEN W
        ELSE Forget(removeInteractiveTarget(DomRemove(Unhover(W), W.m.icon),
                                            W.m.icon))

\* Marker._removeShadow()
_removeShadow(W) ==
    LET Detach(X) == IF X.m.shadow # NoEl THEN DomRemove(X, X.m.shadow) ELSE X
        Forget(X) == Set(X, [X EXCEPT !.m.shadow = NoEl])
    IN  Forget(Detach(W))

\* Icon.createIcon(oldIcon): the old element is reused when it has the tag
\* the definition creates
createIcon(W, def, old) ==
    IF W.threw THEN W
    ELSE IF old # NoEl /\ W.dom[old].tag = def.tag THEN [W EXCEPT !.ret = old]
    ELSE CreateElement(W, Fresh(W), def.tag)

\* Icon.createShadow(oldShadow): absent when the definition has no shadow
createShadow(W, def, old) ==
    IF W.threw THEN W
    ELSE IF ~def.shadow THEN [W EXCEPT !.ret = NoEl]
    ELSE IF old # NoEl THEN [W EXCEPT !.ret = old]
    ELSE CreateElement(W, Fresh(W), "img")

\* Marker._initIcon(); its local variables icon, addIcon, newShadow and
\* addShadow are kept in the world while it runs
_initIcon(W) ==
    LET NewIcon(X) == createIcon(X, X.m.options.icon, X.m.icon)
        Compare(X) == Set(X, [X EXCEPT !.loc.icon = X.ret,
                                       !.loc.addIcon = (X.ret # X.m.icon)])
        DropOld(X) ==
            IF X.loc.addIcon /\ X.m.icon # NoEl THEN _removeIcon(X) ELSE X
        ClassIcon(X) == AddClass(X, X.loc.icon, "leaflet-zoom-animated")
        StoreIcon(X) == Set(X, [X EXCEPT !.m.icon = X.loc.icon])
        Hover(X) ==
            IF X.m.options.riseOnHover
            THEN Set(X, [X EXCEPT !.m.hover = TRUE])
            ELSE X
        NewShadow(X) == createShadow(X, X.m.options.icon, X.m.shadow)
        CompareShadow(X) ==
            Set(X, [X EXCEPT !.loc.newShadow = X.ret,
                             !.loc.addShadow = (X.ret # X.m.shadow)])
        DropOldShadow(X) == IF X.loc.addShadow THEN _removeShadow(X) ELSE X
        ClassShadow(X) ==
            IF X.loc.newShadow # NoEl
            THEN AddClass(X, X.loc.newShadow, "leaflet-zoom-animated")
            ELSE X
        StoreShadow(X) == Set(X, [X EXCEPT !.m.shadow = X.loc.newShadow])
        Opacity(X) ==
            IF X.m.options.opacity < 100 THEN _updateOpacity(X) ELSE X
        AppendIcon(X) ==
            IF X.loc.addIcon THEN AppendChild(X, "markerPane", X.m.icon) ELSE X
        AppendShadow(X) ==
            IF X.loc.newShadow # NoEl /\ X.loc.addShadow
            THEN AppendChild(X, "shadowPane", X.m.shadow)
            ELSE X
    IN  AppendShadow(_initInteraction(AppendIcon(Opacity(
          StoreShadow(ClassShadow(DropOldShadow(CompareShadow(NewShadow(
            Hover(StoreIcon(ClassIcon(DropOld(Compare(NewIcon(W)))))))))))))))

----------------------------------------------------------------------------
(* L.Marker: public operations *)

\* Marker.onAdd(map)
onAdd(W) == update(_initIcon(W))

\* onRemove with a seeded fault: the drag controller is disabled outright
onRemove_disable(W) ==
    LET Unhook(X) ==
            IF X.m.dragging.exists /\ enabled(X.m)
            THEN disable([X EXCEPT !.m.options.draggable = TRUE])
            ELSE X
    IN  _removeShadow(_removeIcon(Unhook(W)))

\* Marker.onRemove()
onRemove(W) ==
    LET Unhook(X) ==
            IF X.m.dragging.exists /\ enabled(X.m)
            THEN removeHooks([X EXCEPT !.m.options.draggable = TRUE])
            ELSE X
    IN  _removeShadow(_removeIcon(Unhook(W)))

\* Layer.addTo(map) -> Map.addLayer: sets _map, then calls onAdd
addTo(W) == onAdd([W EXCEPT !.m.map = TRUE])

\* Layer.remove() -> Map.removeLayer: calls onRemove, fires `remove` (which
\* closes a bound popup), then clears _map
remove(W) ==
    LET Clear(X) == Set(X, [X EXCEPT !.m.map = FALSE])
    IN  Clear(closePopup(onRemove(W)))

\* Marker.getLatLng()
getLatLng(m) == m.latlng

\* Marker.getElement()
getElement(m) == m.icon

\* setLatLng with a seeded fault: move is fired before the icon is moved
setLatLng_fireFirst(W, latlng) ==
    LET oldLatLng == W.m.latlng
        Store(X) == [X EXCEPT !.m.latlng = latlng]
        Announce(X) == Fire(X, Ev("move", X.m.latlng, oldLatLng, X))
    IN  update(Announce(Store(W)))

\* Marker.setLatLng(latlng)
setLatLng(W, latlng) ==
    LET oldLatLng == W.m.latlng
        Store(X) == [X EXCEPT !.m.latlng = latlng]
        Announce(X) == Fire(X, Ev("move", X.m.latlng, oldLatLng, X))
    IN  Announce(update(Store(W)))

\* Marker.setZIndexOffset(offset)
setZIndexOffset(W, offset) ==
    update([W EXCEPT !.m.options.zIndexOffset = offset])

\* Marker.setIcon(icon)
setIcon(W, def) ==
    LET Store(X) == [X EXCEPT !.m.options.icon = def]
        Rebuild(X) == IF X.m.map THEN update(_initIcon(X)) ELSE X
    IN  Rebuild(Store(W))

\* setOpacity with a seeded fault: the opacity is applied without asking
\* whether the marker is on a map
setOpacity_unguarded(W, opacity) ==
    _updateOpacity([W EXCEPT !.m.options.opacity = opacity])

\* Marker.setOpacity(opacity)
setOpacity(W, opacity) ==
    LET Store(X) == [X EXCEPT !.m.options.opacity = opacity]
        Apply(X) == IF X.m.map THEN _updateOpacity(X) ELSE X
    IN  Apply(Store(W))

----------------------------------------------------------------------------
(* L.ObjectOverlay *)

\* L.latLngBounds(a, b): the rectangle spanned by two corners
latLngBounds(a, b) ==
    [sw |-> LL(Min2(a.lat, b.lat), Min2(a.lng, b.lng)),
     ne |-> LL(Max2(a.lat, b.lat), Max2(a.lng, b.lng))]

\* LatLngBounds.getNorthWest / getSouthEast
getNorthWest(b) == LL(b.ne.lat, b.sw.lng)
getSouthEast(b) == LL(b.sw.lat, b.ne.lng)

\* new L.Bounds(p1, p2) and Bounds.getSize()
Bounds(p1, p2) ==
    [min |-> Pt(Min2(p1.x, p2.x), Min2(p1.y, p2.y)),
     max |-> Pt(Max2(p1.x, p2.x), Max2(p1.y, p2.y))]
getSize(b) == Pt(b.max.x - b.min.x, b.max.y - b.min.y)

Urls == {"a.svg", "b.svg"}
Opacities == {100, 50, 0}

\* the <object> element before it is created
NoObject == [exists |-> FALSE, data |-> "", opacity |-> 100, attached |-> FALSE,
             pos |-> Pt(0, 0), width |-> 0, height |-> 0,
             offset |-> Pt(0, 0), zoomTo |-> NoZoom,
             cls |-> {}, target |-> FALSE, order |-> "none"]

\* ObjectOverlay._updateOpacity()
ov_updateOpacity(O) == [O EXCEPT !.object.opacity = O.options.opacity]

\* ObjectOverlay._initObject()
_initObject(O) ==
    [O EXCEPT !.object = [NoObject EXCEPT !.exists = TRUE, !.data = O.url,
                                          !.cls = {"leaflet-zoom-animated"}]]

\* ObjectOverlay._reset(): setPosition also replaces the element's transform
_reset(O, v) ==
    LET bounds == Bounds(latLngToLayerPoint(getNorthWest(O.bounds), v),
                         latLngToLayerPoint(getSouthEast(O.bounds), v))
        size == getSize(bounds)
    IN  [O EXCEPT !.object.pos = bounds.min,
                  !.object.offset = bounds.min,
                  !.object.zoomTo = NoZoom,
                  !.object.height = size.y,
                  !.object.width = size.x]

\* ObjectOverlay._animateZoom(e): L.DomUtil.setTransform(object, offset, scale)
ov_animateZoom(O, zoom, v) ==
    [O EXCEPT !.object.offset =
                  latLngToNewLayerPoint(getNorthWest(O.bounds), zoom, v),
              !.object.zoomTo = zoom]

\* ObjectOverlay.onAdd()
ov_onAdd(O, v) ==
    LET O1 == IF ~O.object.exists
              THEN LET Oi == _initObject(O)
                   IN  IF Oi.options.opacity < 100 THEN ov_updateOpacity(Oi) ELSE Oi
              ELSE O
        O2 == IF O1.options.interactive
              THEN [O1 EXCEPT !.object.cls = @ \cup {"leaflet-interactive"},
                              !.object.target = TRUE]
              ELSE O1
    IN  _reset([O2 EXCEPT !.object.attached = TRUE, !.object.order = "front"], v)

\* onRemove with a seeded fault: the element is dropped with the mount
ov_onRemove_destroy(O) == [O EXCEPT !.object = NoObject]

\* ObjectOverlay.onRemove()
ov_onRemove(O) ==
    LET O1 == [O EXCEPT !.object.attached = FALSE, !.object.order = "none"]
    IN  IF O1.options.interactive THEN [O1 EXCEPT !.object.target = FALSE] ELSE O1

\* ObjectOverlay.setOpacity(opacity)
ov_setOpacity(O, opacity) ==
    LET O1 == [O EXCEPT !.options.opacity = opacity]
    IN  IF O1.object.exists THEN ov_updateOpacity(O1) ELSE O1

\* ObjectOverlay.setStyle(styleOpts): a zero opacity is falsy
setStyle(O, opacity) ==
    IF opacity # 0 THEN ov_setOpacity(O, opacity) ELSE O

\* ObjectOverlay.bringToFront(): L.DomUtil.toFront makes the element the last
\* child of its pane
bringToFront(O) == IF O.map THEN [O EXCEPT !.object.order = "front"] ELSE O

\* ObjectOverlay.bringToBack(): L.DomUtil.toBack makes it the first child
bringToBack(O) == IF O.map THEN [O EXCEPT !.object.order = "back"] ELSE O

\* ObjectOverlay.setUrl(url)
setUrl(O, url) ==
    LET O1 == [O EXCEPT !.url = url]
    IN  IF O1.object.exists THEN [O1 EXCEPT !.object.data = url] ELSE O1

\* setBounds with a seeded fault: the element is left where it was
setBounds_noReset(O, bounds, v) == [O EXCEPT !.bounds = bounds]

\* ObjectOverlay.setBounds(bounds)
setBounds(O, bounds, v) ==
    LET O1 == [O EXCEPT !.bounds = bounds]
    IN  IF O1.map THEN _reset(O1, v) ELSE O1

\* ObjectOverlay.getElement()
ov_getElement(O) == O.object.exists

\* Layer.addTo(map) -> Map.addLayer: sets _map, calls onAdd
ov_addTo(O, v) == ov_onAdd([O EXCEPT !.map = TRUE], v)

\* Layer.remove() -> Map.removeLayer: calls onRemove, clears _map
ov_remove(O) == [ov_onRemove(O) EXCEPT !.map = FALSE]

----------------------------------------------------------------------------
(* Initial state: the application has constructed one layer, not yet added *)

ZOffsets == {0, 5}
MarkerOpacities == {50}

NewMarker(ll, def, z, o, drg, inter, rise) ==
    [map |-> FALSE, latlng |-> ll, icon |-> NoEl, shadow |-> NoEl, zIndex |-> 0,
     hover |-> FALSE,
     options |-> [icon |-> def, zIndexOffset |-> z, opacity |-> o,
                  draggable |-> drg, interactive |-> inter,
                  riseOnHover |-> rise],
     dragging |-> NoHandler]

NewOverlay(url, b, o, inter) ==
    [map |-> FALSE, url |-> url, bounds |-> b,
     options |-> [opacity |-> o, interactive |-> inter],
     object |-> NoObject]

BoundsSet == {latLngBounds(a, b) : a \in LatLngs, b \in LatLngs}

IdleMarker == NewMarker(LL(0, 0), IconDefault, 0, 100, FALSE, TRUE, FALSE)
IdleOverlay == NewOverlay("a.svg", latLngBounds(LL(0, 0), LL(0, 0)), 100, FALSE)


Init ==
    /\ layer \in {"marker", "overlay"}
    /\ view \in Views
    /\ animTarget = NoZoom
    /\ dom = [e \in ElemIds |-> NewElement]
    /\ popupOpen = FALSE
    /\ gestureLog = <<>>
    /\ exceeded = FALSE
    /\ everMounted = FALSE
    /\ IF layer = "marker"
       THEN /\ \E ll \in LatLngs, def \in IconDefs, z \in ZOffsets,
                  o \in MarkerOpacities, drg \in BOOLEAN, inter \in BOOLEAN,
                  rise \in BOOLEAN :
                  marker = NewMarker(ll, def, z, o, drg, inter, rise)
            /\ overlay = IdleOverlay
       ELSE /\ marker = IdleMarker
            /\ \E url \in Urls, b \in BoundsSet, o \in Opacities, inter \in BOOLEAN :
                  overlay = NewOverlay(url, b, o, inter)

----------------------------------------------------------------------------
(* Applying an operation to the current state *)

\* the world an operation of the marker starts in: fired collects the events
\* the operation fires on the marker, threw tells that it raised an exception
World ==
    [m |-> marker, dom |-> dom, view |-> view, popup |-> popupOpen,
     fired |-> <<>>, threw |-> FALSE,
     glog |-> IF marker.dragging.draggable.moving THEN gestureLog ELSE <<>>,
     pre |-> UsedIn(marker, dom), ret |-> NoEl,
     loc |-> [icon |-> NoEl, addIcon |-> FALSE,
              newShadow |-> NoEl, addShadow |-> FALSE]]

\* the elements of a set of identities in ascending order
RECURSIVE Ascending(_)
Ascending(S) ==
    IF S = {} THEN <<>>
    ELSE LET e == CHOOSE x \in S : \A y \in S : x <= y
         IN  <<e>> \o Ascending(S \ {e})

\* a sequence without NoEl and without repetitions
RECURSIVE Distinct(_)
Distinct(q) ==
    IF q = <<>> THEN <<>>
    ELSE LET r == Distinct(SubSeq(q, 1, Len(q) - 1))
             e == q[Len(q)]
         IN  IF e = NoEl \/ \E i \in 1..Len(r) : r[i] = e THEN r ELSE Append(r, e)

\* the elements still in use, in the order that names them: the icon, the
\* shadow, the element of the gesture engine, then any other attached element
Naming(W) ==
    LET refs == Distinct(<<W.m.icon, W.m.shadow, W.m.dragging.draggable.el>>)
    IN  refs \o Ascending(Used(W) \ {refs[i] : i \in 1..Len(refs)})

\* the name of element e under the naming n
NameIn(n, e) ==
    IF e = NoEl THEN NoEl
    ELSE CHOOSE i \in 1..Len(n) : n[i] = e

\* the state after an operation that ended in world W, its elements renamed
\* by n
CommitAs(W, n) ==
    /\ marker' = [W.m EXCEPT !.icon = NameIn(n, @), !.shadow = NameIn(n, @),
                             !.dragging.draggable.el = NameIn(n, @)]
    /\ dom' = [e \in ElemIds |-> IF e <= Len(n) THEN W.dom[n[e]] ELSE NewElement]
    /\ popupOpen' = W.popup
    /\ gestureLog' = W.glog
    /\ UNCHANGED overlay

\* the state after the operation; element identities are only names, so the
\* elements still in use are renamed in a fixed order and the others forgotten
Commit(W) == CommitAs(W, Naming(W))

CommitOverlay(O) ==
    /\ overlay' = O
    /\ UNCHANGED <<marker, dom, popupOpen, gestureLog>>

----------------------------------------------------------------------------
(* Marker actions *)

AddTo ==
    /\ layer = "marker" /\ ~marker.map
    /\ Commit(addTo(World))
    /\ exceeded' = FALSE
    /\ UNCHANGED <<layer, view, animTarget, everMounted>>

Remove ==
    /\ layer = "marker" /\ marker.map
    /\ Commit(remove(World))
    /\ UNCHANGED <<layer, view, animTarget, exceeded, everMounted>>

SetLatLng ==
    /\ layer = "marker"
    /\ \E ll \in LatLngs : Commit(setLatLng(World, ll))
    /\ UNCHANGED <<layer, view, animTarget, exceeded, everMounted>>

SetZIndexOffset ==
    /\ layer = "marker"
    /\ \E z \in ZOffsets : Commit(setZIndexOffset(World, z))
    /\ UNCHANGED <<layer, view, animTarget, exceeded, everMounted>>

SetIcon ==
    /\ layer = "marker"
    /\ \E def \in IconDefs : Commit(setIcon(World, def))
    /\ exceeded' = IF marker.map THEN FALSE ELSE exceeded
    /\ UNCHANGED <<layer, view, animTarget, everMounted>>

SetOpacity ==
    /\ layer = "marker"
    /\ \E o \in MarkerOpacities : Commit(setOpacity(World, o))
    /\ UNCHANGED <<layer, view, animTarget, exceeded, everMounted>>

OpenPopup ==
    /\ layer = "marker" /\ marker.map /\ ~popupOpen
    /\ Commit([World EXCEPT !.popup = TRUE])
    /\ UNCHANGED <<layer, view, animTarget, exceeded, everMounted>>

DraggingEnable ==
    /\ layer = "marker" /\ marker.dragging.exists
    /\ Commit(enable(World))
    /\ UNCHANGED <<layer, view, animTarget, exceeded, everMounted>>

DraggingDisable ==
    /\ layer = "marker" /\ marker.dragging.exists
    /\ Commit(disable(World))
    /\ UNCHANGED <<layer, view, animTarget, exceeded, everMounted>>

----------------------------------------------------------------------------
(* Pointer input on the icon *)

\* the map hands a mouseover on the icon to the marker, whose listener (if
\* riseOnHover subscribed one) is _bringToFront
MouseOver ==
    /\ layer = "marker"
    /\ marker.icon # NoEl /\ dom[marker.icon].target
    /\ Commit(IF marker.hover THEN _bringToFront(World) ELSE World)
    /\ UNCHANGED <<layer, view, animTarget, exceeded, everMounted>>

\* a mouseout on the icon: the listener is _resetZIndex
MouseOut ==
    /\ layer = "marker"
    /\ marker.icon # NoEl /\ dom[marker.icon].target
    /\ Commit(IF marker.hover THEN _resetZIndex(World) ELSE World)
    /\ UNCHANGED <<layer, view, animTarget, exceeded, everMounted>>

Offsets == {Pt(dx, dy) : dx \in -MaxDisp..MaxDisp, dy \in -MaxDisp..MaxDisp}

PointerDown ==
    /\ layer = "marker"
    /\ LET d == marker.dragging.draggable
       IN  /\ d.exists /\ d.enabled /\ ~d.moving
           /\ dom[d.el].pane # "none"
    /\ Commit(DraggableOnDown(World))
    /\ exceeded' = FALSE
    /\ UNCHANGED <<layer, view, animTarget, everMounted>>

PointerMove ==
    /\ layer = "marker"
    /\ marker.dragging.draggable.moving
    /\ Len(gestureLog) < 2 + 2 * MaxMoves
    /\ \E off \in Offsets :
          LET sp == marker.dragging.draggable.startPos
          IN  /\ layerPointToLatLng(Pt(sp.x + off.x, sp.y + off.y), view) \in LatLngs
              /\ Commit(DraggableOnMove(World, off))
              /\ exceeded' = (exceeded \/ Abs(off.x) + Abs(off.y) > DragTolerance)
    /\ UNCHANGED <<layer, view, animTarget, everMounted>>

PointerUp ==
    /\ layer = "marker"
    /\ marker.dragging.draggable.moving
    /\ Commit(DraggableOnUp(World))
    /\ UNCHANGED <<layer, view, animTarget, exceeded, everMounted>>

----------------------------------------------------------------------------
(* Object overlay actions *)

OvAddTo ==
    /\ layer = "overlay" /\ ~overlay.map
    /\ CommitOverlay(ov_addTo(overlay, view))
    /\ everMounted' = TRUE
    /\ UNCHANGED <<layer, view, animTarget, exceeded>>

OvRemove ==
    /\ layer = "overlay" /\ overlay.map
    /\ CommitOverlay(ov_remove(overlay))
    /\ UNCHANGED <<layer, view, animTarget, exceeded, everMounted>>

OvSetOpacity ==
    /\ layer = "overlay"
    /\ \E o \in Opacities : CommitOverlay(ov_setOpacity(overlay, o))
    /\ UNCHANGED <<layer, view, animTarget, exceeded, everMounted>>

OvSetStyle ==
    /\ layer = "overlay"
    /\ \E o \in Opacities : CommitOverlay(setStyle(overlay, o))
    /\ UNCHANGED <<layer, view, animTarget, exceeded, everMounted>>

OvSetUrl ==
    /\ layer = "overlay"
    /\ \E u \in Urls : CommitOverlay(setUrl(overlay, u))
    /\ UNCHANGED <<layer, view, animTarget, exceeded, everMounted>>

OvBringToFront ==
    /\ layer = "overlay"
    /\ CommitOverlay(bringToFront(overlay))
    /\ UNCHANGED <<layer, view, animTarget, exceeded, everMounted>>

OvBringToBack ==
    /\ layer = "overlay"
    /\ CommitOverlay(bringToBack(overlay))
    /\ UNCHANGED <<layer, view, animTarget, exceeded, everMounted>>

OvSetBounds ==
    /\ layer = "overlay"
    /\ \E b \in BoundsSet : CommitOverlay(setBounds(overlay, b, view))
    /\ UNCHANGED <<layer, view, animTarget, exceeded, everMounted>>

----------------------------------------------------------------------------
(* Map view events, delivered to the layer when it is on the map *)

\* the handler a layer registers in getEvents() for `zoom` and `viewreset`,
\* run under the new view
OnViewEvent(v) ==
    IF layer = "marker"
    THEN Commit(IF marker.map THEN update([World EXCEPT !.view = v]) ELSE World)
    ELSE CommitOverlay(IF overlay.map THEN _reset(overlay, v) ELSE overlay)

\* the view is reset to another zoom without animation: `viewreset` and `zoom`
\* fire, and the handler runs for each
MapZoom ==
    /\ animTarget = NoZoom
    /\ \E z \in Zooms \ {view.zoom} :
          /\ view' = ViewAt(z)
          /\ IF layer = "marker"
             THEN Commit(IF marker.map
                         THEN update(update([World EXCEPT !.view = view']))
                         ELSE World)
             ELSE CommitOverlay(IF overlay.map
                                THEN _reset(_reset(overlay, view'), view')
                                ELSE overlay)
    /\ UNCHANGED <<layer, animTarget, exceeded, everMounted>>

\* an animated zoom starts: fires `zoomanim`
MapZoomAnim ==
    /\ animTarget = NoZoom
    /\ \E z \in Zooms \ {view.zoom} :
          /\ animTarget' = z
          /\ IF layer = "marker"
             THEN Commit(IF marker.map THEN _animateZoom(World, z) ELSE World)
             ELSE CommitOverlay(IF overlay.map
                                THEN ov_animateZoom(overlay, z, view)
                                ELSE overlay)
    /\ UNCHANGED <<layer, view, exceeded, everMounted>>

\* the animated zoom arrives: the view takes the new zoom and `zoom` fires
MapZoomEnd ==
    /\ animTarget # NoZoom
    /\ view' = ViewAt(animTarget)
    /\ animTarget' = NoZoom
    /\ OnViewEvent(view')
    /\ UNCHANGED <<layer, exceeded, everMounted>>

Next ==
    \/ AddTo \/ Remove \/ SetLatLng \/ SetZIndexOffset \/ SetIcon \/ SetOpacity
    \/ OpenPopup \/ DraggingEnable \/ DraggingDisable
    \/ MouseOver \/ MouseOut
    \/ PointerDown \/ PointerMove \/ PointerUp
    \/ OvAddTo \/ OvRemove \/ OvSetOpacity \/ OvSetStyle \/ OvSetUrl
    \/ OvSetBounds \/ OvBringToFront \/ OvBringToBack
    \/ MapZoom \/ MapZoomAnim \/ MapZoomEnd

Spec == Init /\ [][Next]_vars

----------------------------------------------------------------------------
(* Properties *)

Names(q) == [i \in 1..Len(q) |-> q[i].name]
Last(q) == q[Len(q)]

\* a gesture is in progress on the marker's icon
InGesture == marker.dragging.draggable.moving

\* a pointer-down on the icon would begin a gesture
CanPress ==
    /\ layer = "marker"
    /\ marker.dragging.draggable.exists
    /\ marker.dragging.draggable.enabled
    /\ ~InGesture
    /\ dom[marker.dragging.draggable.el].pane # "none"

\* q is movestart, dragstart, (move, drag)*, moveend, dragend or a beginning
\* of it
GestureOrder(q) ==
    \A i \in 1..Len(q) :
        /\ i = 1 => q[i] = "movestart"
        /\ i = 2 => q[i] = "dragstart"
        /\ (i > 2 /\ i % 2 = 1) =>
               q[i] \in {"move", "moveend"} /\ q[i - 1] \in {"dragstart", "drag"}
        /\ (i > 2 /\ i % 2 = 0) =>
               \/ q[i] = "drag" /\ q[i - 1] = "move"
               \/ q[i] = "dragend" /\ q[i - 1] = "moveend"

\* C1: the events the drag controller fires on the marker for a gesture are
\* movestart, dragstart (the popup is closed before them), then (move, drag)
\* pairs, then moveend, dragend: pointer-down fires exactly the first two,
\* each pointer-move exactly one pair, pointer-up exactly the last two, and
\* the controller fires nothing that does not continue a gesture this way
C1_GestureEvents ==
    /\ GestureOrder(gestureLog)
    /\ CanPress =>
           /\ Names(DraggableOnDown(World).fired) = <<"movestart", "dragstart">>
           /\ \A i \in 1..2 : ~DraggableOnDown(World).fired[i].popup
    /\ InGesture =>
           /\ gestureLog # <<>>
           /\ Last(gestureLog) \in {"dragstart", "drag"}
           /\ \A off \in Offsets :
                  Names(DraggableOnMove(World, off).fired) = <<"move", "drag">>
           /\ Names(DraggableOnUp(World).fired) = <<"moveend", "dragend">>

\* C1 witness: a gesture of two moves has just ended
C1_Witness ==
    gestureLog = <<"movestart", "dragstart", "move", "drag", "move", "drag",
                   "moveend", "dragend">>

\* C2: whenever a gesture that began is no longer in progress, the marker
\* has received its moveend and dragend
C2_TerminalEndDelivered ==
    (layer = "marker" /\ ~InGesture /\ gestureLog # <<>>) =>
        (Len(gestureLog) >= 2
         /\ gestureLog[Len(gestureLog) - 1] = "moveend"
         /\ Last(gestureLog) = "dragend")

\* C3: a drag-move stores the inverse transform of the icon's pixel position
\* in the marker before move and drag are fired, both carry that position as
\* latlng, and after the dragend that follows getLatLng() is the latlng of
\* the last drag
C3_DragStoresPosition ==
    InGesture =>
        \A off \in Offsets :
            LET W == DraggableOnMove(World, off)
            IN  /\ Len(W.fired) = 2
                /\ W.m.latlng = layerPointToLatLng(W.dom[W.m.icon].pos, view)
                /\ \A i \in 1..2 : /\ W.fired[i].latlng = W.m.latlng
                                   /\ W.fired[i].at = W.m.latlng
                /\ getLatLng(DraggableOnUp(W).m) = W.fired[2].latlng

\* C3 witness: a drag-move has taken the icon, and the marker with it, away
\* from where the gesture began
C3_Witness ==
    /\ InGesture
    /\ Len(gestureLog) >= 4
    /\ dom[marker.icon].pos # marker.dragging.draggable.startPos
    /\ marker.latlng = layerPointToLatLng(dom[marker.icon].pos, view)

\* C4: moved() is true iff the pointer displacement of the most recent
\* gesture on the present controller exceeded the drag tolerance
C4_MovedIffExceeded == moved(marker) <=> exceeded

\* C4 witness: a gesture that exceeded the tolerance has ended
C4_Witness ==
    /\ ~InGesture
    /\ gestureLog # <<>> /\ Last(gestureLog) = "dragend"
    /\ exceeded

\* C5: setIcon on a mounted interactive marker leaves it mounted with the
\* icon as the only element of the marker pane; a new element was appended
\* once and the old one detached, a reused element was neither detached nor
\* appended again; the controller is a new one, enabled iff the old one was
C5_SetIconSwapsOnce ==
    (layer = "marker" /\ marker.map /\ marker.options.interactive) =>
        \A def \in IconDefs :
            LET W == setIcon(World, def)
                old == marker.icon
                new == W.m.icon
            IN  /\ ~W.threw /\ W.m.map /\ new # NoEl
                /\ W.dom[new].tag = def.tag
                /\ {e \in ElemIds : W.dom[e].pane = "markerPane"} = {new}
                /\ new # old => /\ W.dom[old].pane = "none"
                                /\ W.dom[old].detaches = dom[old].detaches + 1
                                /\ W.dom[new].appends = 1
                                /\ W.dom[new].detaches = 0
                /\ new = old => /\ W.dom[new].appends = dom[old].appends
                                /\ W.dom[new].detaches = dom[old].detaches
                /\ W.m.dragging.exists
                /\ ~moved(W.m)
                /\ enabled(W.m) = enabled(marker)
                /\ enabled(W.m) => /\ W.m.dragging.draggable.enabled
                                   /\ W.m.dragging.draggable.el = new
                /\ ~enabled(W.m) => ~W.m.dragging.draggable.exists

\* C5 witness: a mounted marker with dragging enabled by hand, on which
\* setIcon puts a new element in the place of the icon
C5_Witness ==
    /\ layer = "marker" /\ marker.map /\ marker.options.interactive
    /\ ~marker.options.draggable /\ enabled(marker)
    /\ \E def \in IconDefs :
          /\ setIcon(World, def).m.icon # marker.icon
          /\ enabled(setIcon(World, def).m)

\* C6: the marker's icon element is non-null iff the marker is on the map,
\* and the shadow element is null when it is not
C6_IconIffMounted ==
    /\ (getElement(marker) # NoEl) <=> marker.map
    /\ ~marker.map => marker.shadow = NoEl

\* C6 witness: a marker that was on the map and has been removed
C6_Witness ==
    /\ layer = "marker" /\ ~marker.map /\ marker.dragging.exists
    /\ getElement(marker) = NoEl

\* C7, as claimed: the overlay's element is non-null iff the overlay is on
\* the map
C7_ElementIffMounted == ov_getElement(overlay) <=> overlay.map

\* C7, amended: the overlay's element is non-null iff the overlay has been
\* on the map at least once, so in particular whenever it is on the map
C7_ElementOnceMounted ==
    /\ overlay.map => ov_getElement(overlay)
    /\ ov_getElement(overlay) <=> everMounted

\* C7 witness: an overlay that has been removed from the map keeps its
\* element
C7_Witness == layer = "overlay" /\ ~overlay.map /\ ov_getElement(overlay)

\* the base z-index is the icon's screen y plus zIndexOffset, and the icon's
\* style has it
ZIndexFollows(W) ==
    /\ W.m.zIndex = W.dom[W.m.icon].pos.y + W.m.options.zIndexOffset
    /\ W.dom[W.m.icon].z = W.m.zIndex

\* C8: after every update of a mounted marker's position, by setLatLng, by
\* a zoom or viewreset, by a step of an animated zoom or by a drag-move, the
\* base z-index is the icon's screen y plus zIndexOffset and the icon's style
\* has it
C8_ZIndexFollowsPosition ==
    (layer = "marker" /\ marker.map) =>
        /\ \A ll \in LatLngs : ZIndexFollows(setLatLng(World, ll))
        /\ \A v \in Views : ZIndexFollows(update([World EXCEPT !.view = v]))
        /\ \A z \in Zooms : ZIndexFollows(_animateZoom(World, z))
        /\ InGesture =>
               \A off \in Offsets : ZIndexFollows(DraggableOnMove(World, off))

\* C9: the element of a mounted overlay is at the component-wise minimum of
\* the screen points of the north-west and south-east corners of its bounds,
\* and as wide and high as the two points are apart
C9_OverlayRectangle ==
    (layer = "overlay" /\ overlay.map) =>
        LET nw == latLngToLayerPoint(getNorthWest(overlay.bounds), view)
            se == latLngToLayerPoint(getSouthEast(overlay.bounds), view)
        IN  /\ overlay.object.pos = Pt(Min2(nw.x, se.x), Min2(nw.y, se.y))
            /\ overlay.object.width = se.x - nw.x
            /\ overlay.object.height = se.y - nw.y

\* C9 witness: a mounted overlay whose bounds span an area of the screen
C9_Witness ==
    /\ layer = "overlay" /\ overlay.map
    /\ overlay.object.width > 0 /\ overlay.object.height > 0
    /\ overlay.object.pos # Pt(0, 0)

\* C10: a second Marker.update() leaves the positions of the icon and of the
\* shadow and the z-index as the first left them, and a second
\* ObjectOverlay._reset() the position and the size of the element
C10_UpdateIdempotent ==
    /\ layer = "marker" =>
           \A v \in Views :
               LET W1 == update([World EXCEPT !.view = v])
                   W2 == update(W1)
               IN  /\ W2.dom = W1.dom
                   /\ W2.m.zIndex = W1.m.zIndex
    /\ layer = "overlay" =>
           \A v \in Views :
               LET O1 == _reset(overlay, v)
                   O2 == _reset(O1, v)
               IN  /\ O2.object.pos = O1.object.pos
                   /\ O2.object.width = O1.object.width
                   /\ O2.object.height = O1.object.height

\* C10 witness: a mounted marker whose icon is not where update() puts it
C10_Witness ==
    /\ layer = "marker" /\ marker.map
    /\ dom[marker.icon].pos # latLngToLayerPoint(marker.latlng, view)
    /\ update(World).dom[marker.icon].pos # dom[marker.icon].pos

\* C11: on a marker that is not on the map, setLatLng, setZIndexOffset,
\* setOpacity and setIcon do not fail, touch no element and change only the
\* stored position, offset, opacity or icon definition; on an overlay that
\* was never on the map, setOpacity, setUrl, setBounds, bringToFront and
\* bringToBack change only the stored opacity, url or bounds
C11_UnmountedMutators ==
    /\ (layer = "marker" /\ ~marker.map) =>
           /\ \A ll \in LatLngs :
                  LET W == setLatLng(World, ll)
                  IN  /\ ~W.threw /\ W.dom = dom
                      /\ W.m = [marker EXCEPT !.latlng = ll]
           /\ \A z \in ZOffsets :
                  LET W == setZIndexOffset(World, z)
                  IN  /\ ~W.threw /\ W.dom = dom
                      /\ W.m = [marker EXCEPT !.options.zIndexOffset = z]
           /\ \A o \in Opacities :
                  LET W == setOpacity(World, o)
                  IN  /\ ~W.threw /\ W.dom = dom
                      /\ W.m = [marker EXCEPT !.options.opacity = o]
           /\ \A def \in IconDefs :
                  LET W == setIcon(World, def)
                  IN  /\ ~W.threw /\ W.dom = dom
                      /\ W.m = [marker EXCEPT !.options.icon = def]
    /\ (layer = "overlay" /\ ~everMounted) =>
           /\ \A o \in Opacities :
                  ov_setOpacity(overlay, o) = [overlay EXCEPT !.options.opacity = o]
           /\ \A u \in Urls : setUrl(overlay, u) = [overlay EXCEPT !.url = u]
           /\ \A b \in BoundsSet :
                  setBounds(overlay, b, view) = [overlay EXCEPT !.bounds = b]
           /\ bringToFront(overlay) = overlay
           /\ bringToBack(overlay) = overlay

\* C11 witness: a marker that has been taken off the map and whose
\* zIndexOffset was set afterwards, the base z-index still being the one
\* computed on the map
C11_Witness ==
    /\ layer = "marker" /\ ~marker.map /\ marker.dragging.exists
    /\ Abs(marker.zIndex - marker.options.zIndexOffset) > MaxCoord + 1

\* enabling an enabled controller and disabling a disabled one change
\* nothing, and on the map the icon has the draggable class iff the
\* controller is enabled
EnableDisableIdempotent ==
    (layer = "marker" /\ marker.dragging.exists) =>
        /\ enabled(marker) =>
               /\ ~enable(World).threw
               /\ enable(World).m = marker /\ enable(World).dom = dom
        /\ ~enabled(marker) =>
               /\ ~disable(World).threw
               /\ disable(World).m = marker /\ disable(World).dom = dom
        /\ marker.map =>
               (("leaflet-marker-draggable" \in dom[marker.icon].cls)
                    <=> enabled(marker))

\* C12: enabling and disabling the drag controller is idempotent and safe:
\* enable-while-enabled and disable-while-disabled change nothing, the icon
\* has the draggable class iff the controller is enabled, and neither
\* disable() nor removeHooks() fails on a controller that was never enabled
C12_EnableDisableSafe ==
    /\ EnableDisableIdempotent
    /\ (layer = "marker" /\ marker.dragging.exists
         /\ ~marker.dragging.draggable.exists) =>
           /\ ~disable(World).threw
           /\ ~removeHooks(World).threw

\* C13: the hover listeners are there iff riseOnHover is configured and the
\* marker is on the map; mouseover changes nothing but the icon's z-index,
\* which becomes the base z-index plus riseOffset, and mouseout nothing but
\* the icon's z-index, which becomes the base z-index again, so that a
\* z-index that was screen y plus zIndexOffset before the hover is so after
\* it; the icon's z-index is never anything but the base or the risen one
C13_HoverPresentationOnly ==
    /\ marker.hover <=> (marker.options.riseOnHover /\ marker.map)
    /\ marker.map =>
           dom[marker.icon].z \in {marker.zIndex, marker.zIndex + RiseOffset}
    /\ marker.hover =>
           LET Over == _bringToFront(World)
               Out  == _resetZIndex(_bringToFront(World))
           IN  /\ ~Over.threw /\ Over.m = marker
               /\ Over.dom = [dom EXCEPT ![marker.icon].z =
                                              marker.zIndex + RiseOffset]
               /\ ~Out.threw /\ Out.m = marker
               /\ Out.dom = [dom EXCEPT ![marker.icon].z = marker.zIndex]
               /\ ZIndexFollows(World) => ZIndexFollows(Out)

\* C13 witness: the pointer is over the icon of a marker with riseOnHover,
\* and the icon is risen
C13_Witness ==
    /\ layer = "marker" /\ marker.map /\ marker.options.riseOnHover
    /\ dom[marker.icon].z = marker.zIndex + RiseOffset

\* C14: setLatLng, on the map or not, fires exactly one move, whose
\* oldLatLng is the position stored before the call and whose latlng is the
\* position stored after it, the one getLatLng() returns; on the map the
\* icon is at the new coordinate when the event is fired
C14_SetLatLngFiresMove ==
    layer = "marker" =>
        \A ll \in LatLngs :
            LET W == setLatLng(World, ll)
            IN  /\ ~W.threw
                /\ Len(W.fired) = 1
                /\ W.fired[1].name = "move"
                /\ W.fired[1].oldLatLng = marker.latlng
                /\ W.fired[1].latlng = ll
                /\ W.fired[1].at = ll
                /\ getLatLng(W.m) = ll
                /\ marker.map =>
                       W.fired[1].iconAt = <<latLngToLayerPoint(ll, view)>>

\* C14 witness: a marker on the map that setLatLng takes to another screen
\* position, where the icon is when move is fired
C14_Witness ==
    /\ layer = "marker" /\ marker.map
    /\ \E ll \in LatLngs :
          /\ ll # marker.latlng
          /\ setLatLng(World, ll).fired[1].iconAt # <<dom[marker.icon].pos>>
          /\ setLatLng(World, ll).dom[marker.icon].pos
                 = latLngToLayerPoint(ll, view)

\* C15: on a marker that was on the map and is not any more, with dragging
\* disabled, enabling the drag controller does not fail, touches no
\* element and arms no gesture engine
C15_EnableUnmountedSafe ==
    (layer = "marker" /\ ~marker.map /\ marker.dragging.exists
     /\ ~enabled(marker)) =>
        /\ ~enable(World).threw
        /\ enable(World).dom = dom
        /\ ~enable(World).m.dragging.draggable.enabled

\* C16: whenever the marker is on the map and no zoom animation is in
\* progress, the icon's pixel position is the screen projection of the
\* stored geographic position under the current view
C16_PositionInSync ==
    (layer = "marker" /\ marker.map /\ animTarget = NoZoom) =>
        dom[marker.icon].pos = latLngToLayerPoint(marker.latlng, view)

\* C16 witness: a drag-move after the view changed during the gesture (the
\* gesture began at a pixel position that the present view gives to no
\* coordinate)
C16_Witness ==
    /\ layer = "marker" /\ marker.map /\ animTarget = NoZoom
    /\ InGesture /\ Last(gestureLog) = "drag"
    /\ view.zoom = 0
    /\ marker.dragging.draggable.startPos.x < 0
    /\ dom[marker.icon].pos = latLngToLayerPoint(marker.latlng, view)

\* C17: whenever the marker is on the map and has a shadow element, the
\* shadow's pixel position equals the icon's pixel position
C17_ShadowFollowsIcon ==
    (layer = "marker" /\ marker.map /\ marker.shadow # NoEl) =>
        dom[marker.shadow].pos = dom[marker.icon].pos

\* C17 witness: a drag-move has taken the icon of a marker with a shadow
\* away from where the gesture began, and the shadow is with it
C17_Witness ==
    /\ layer = "marker" /\ marker.map /\ marker.shadow # NoEl
    /\ InGesture /\ Last(gestureLog) = "drag"
    /\ dom[marker.icon].pos # marker.dragging.draggable.startPos
    /\ dom[marker.shadow].pos = dom[marker.icon].pos

\* the gesture engine of the drag controller is armed on the marker's icon:
\* it exists, is enabled, is bound to the current icon element and has the
\* three handlers subscribed
Armed(m) ==
    /\ m.dragging.draggable.exists
    /\ m.dragging.draggable.enabled
    /\ m.icon # NoEl
    /\ m.dragging.draggable.el = m.icon
    /\ m.dragging.draggable.subs = Handlers

\* C18: unmounting and remounting an interactive marker does not fail and
\* keeps the drag state: enabled before means enabled and armed on the new
\* icon after, disabled before means disabled after, whatever the draggable
\* option was
C18_DragStateSurvivesRemount ==
    (layer = "marker" /\ marker.map /\ marker.dragging.exists) =>
        LET W == addTo(remove(World))
        IN  /\ ~W.threw
            /\ W.m.map
            /\ enabled(W.m) = enabled(marker)
            /\ Armed(W.m) = enabled(marker)

\* C18 witness: a mounted marker whose draggable option is off has dragging
\* enabled, and a remount arms it again on a new icon; the old icon was
\* detached
C18_Witness ==
    /\ layer = "marker" /\ marker.map /\ marker.dragging.exists
    /\ ~marker.options.draggable /\ enabled(marker)
    /\ Armed(addTo(remove(World)).m)
    /\ addTo(remove(World)).dom[marker.icon].pane = "none"
    /\ addTo(remove(World)).m.icon # marker.icon

\* C19 as stated: in every reachable state the drag controller reports
\* enabled() exactly when its gesture engine is armed on the current icon
C19_EnabledIffArmed ==
    layer = "marker" => (enabled(marker) = Armed(marker))

\* C19 amended: an enabled engine always belongs to a controller that reports
\* enabled(), so that the engine is disabled before a remount replaces the
\* controller and no second enabled engine is left behind; while the marker
\* is on the map, enabled() holds exactly when the engine is armed on the
\* current icon. An unmounted marker may report enabled() with the hooks
\* removed
C19_EnabledIffArmedWhileMounted ==
    layer = "marker" =>
        /\ marker.dragging.draggable.enabled => enabled(marker)
        /\ marker.map => (enabled(marker) = Armed(marker))

\* C19 witness: a mounted marker reports enabled() and its armed engine is
\* in the middle of a gesture on the current icon
C19_Witness ==
    /\ layer = "marker" /\ marker.map
    /\ enabled(marker) /\ Armed(marker)
    /\ marker.dragging.draggable.moving

\* C20: on an object overlay, setStyle with an opacity has the same effect
\* as setOpacity with that opacity, for every opacity from 0 to 1
C20_SetStyleAsSetOpacity ==
    layer = "overlay" =>
        \A o \in Opacities : setStyle(overlay, o) = ov_setOpacity(overlay, o)

====
